---------------------------- MODULE Spec2Model ----------------------------
(***************************************************************************)
(* ScalarPrimitive<C> of elliptic-curve/src/scalar/primitive.rs: a scalar  *)
(* modulo the order of a curve C, held in a fixed-width unsigned integer   *)
(* C::Uint.                                                                *)
(*                                                                         *)
(* The type is a value type whose operations are pure functions, so the    *)
(* state machine is a caller holding one scalar `x` and making one call    *)
(* after the other; `last` is the record of the call made last (its        *)
(* operation, its inputs and what it returned).  The curve is fixed in     *)
(* Init.                                                                   *)
(*                                                                         *)
(* C::Uint is crypto-bigint's Uint and the hexadecimal codec is base16ct;  *)
(* neither lives in this repository.  Their operations are modelled at the *)
(* call site, by what the libraries compute: wrapping arithmetic on        *)
(* 8*BYTES bits with its carry and borrow, byte folds, nibble tables.      *)
(* The widths are scaled down: a Uint of BYTES bytes (for 32 and more),    *)
(* a u64 of U64Bits bits (always no wider than the Uint, as in the code).  *)
(***************************************************************************)
EXTENDS Integers, Sequences, FiniteSets

\* C::Uint::BYTES: the width W of the curve's integer, in bytes.
BYTES == 2

\* The width of u64, scaled (U64Bits <= 8 * BYTES: From<u64> never truncates).
U64Bits == 8

\* The number of calls the caller makes: it constructs its scalar, then
\* operates on it.
MaxCalls == 3

ByteBits == 4 + 4
ByteMod == 2 ^ ByteBits
Bits == ByteBits * BYTES
UintMod == 2 ^ Bits
U64Mod == 2 ^ U64Bits

\* C::ORDER of the curves checked: the smallest order, an odd order below
\* the u64 range, an odd and an even order close to the top of the Uint.
Orders == {2, 251, UintMod - 15, UintMod - 2}

VARIABLES order, x, checked, last, calls

vars == <<order, x, checked, last, calls>>

---------------------------------------------------------------------------
(* C::Uint *)

Wrap(n) == n % UintMod

\* Uint::adc / Uint::sbb over the whole integer: the wrapped result and the
\* carry (borrow) out of the top limb.
adc(a, b) == [w |-> Wrap(a + b), carry |-> (a + b) \div UintMod]

sbb(a, b) == [w |-> Wrap(a - b), borrow |-> IF a < b THEN 1 ELSE 0]

\* Uint::add_mod: add with carry, subtract the modulus, and add it back
\* under the mask of the final borrow.
add_mod(a, b, p) ==
    LET s == adc(a, b)
        d == sbb(s.w, p)
        borrow == IF s.carry < d.borrow THEN 1 ELSE 0
    IN  Wrap(d.w + (IF borrow = 1 THEN p ELSE 0))

\* Uint::sub_mod: subtract with borrow, add the modulus back under the mask.
sub_mod(a, b, p) ==
    LET d == sbb(a, b)
    IN  Wrap(d.w + (IF d.borrow = 1 THEN p ELSE 0))

\* Uint::neg_mod: p - self, replaced by zero when self is zero.
neg_mod(a, p) ==
    LET ret == sbb(p, a).w
    IN  IF a # 0 THEN ret ELSE 0

\* Uint >> 1.
shr(a) == a \div 2

\* Uint::ct_lt(a, b): the borrow of a - b; ct_gt(a, b): the borrow of b - a;
\* ct_eq: no bit differs.
uint_ct_lt(a, b) == sbb(a, b).borrow = 1

uint_ct_gt(a, b) == sbb(b, a).borrow = 1

uint_ct_eq(a, b) == Wrap(a - b) = 0 /\ Wrap(b - a) = 0

\* Ord for Uint: Less = -1, Equal = 0, Greater = 1.
uint_cmp(a, b) ==
    IF uint_ct_lt(a, b) THEN -1 ELSE IF uint_ct_eq(a, b) THEN 0 ELSE 1

\* Uint::from_be_byte_array / from_le_byte_array: fold the bytes.
RECURSIVE FoldBe(_, _)
FoldBe(bytes, acc) ==
    IF bytes = <<>> THEN acc
    ELSE FoldBe(Tail(bytes), acc * ByteMod + Head(bytes))

from_be_byte_array(bytes) == FoldBe(bytes, 0)

RECURSIVE FoldLe(_)
FoldLe(bytes) ==
    IF bytes = <<>> THEN 0
    ELSE Head(bytes) + ByteMod * FoldLe(Tail(bytes))

from_le_byte_array(bytes) == FoldLe(bytes)

\* Uint::to_be_byte_array / to_le_byte_array.
to_be_byte_array(v) ==
    [i \in 1..BYTES |-> (v \div (ByteMod ^ (BYTES - i))) % ByteMod]

to_le_byte_array(v) ==
    [i \in 1..BYTES |-> (v \div (ByteMod ^ (i - 1))) % ByteMod]

\* Uint::from(u64).
uint_from_u64(n) == Wrap(n)

---------------------------------------------------------------------------
(* base16ct *)

LowerDigits ==
    <<"0", "1", "2", "3", "4", "5", "6", "7",
      "8", "9", "a", "b", "c", "d", "e", "f">>

UpperDigits ==
    <<"0", "1", "2", "3", "4", "5", "6", "7",
      "8", "9", "A", "B", "C", "D", "E", "F">>

\* base16ct::lower::decode_nibble: the digit's value, or -1.
decode_nibble(c) ==
    IF \E i \in 1..16 : LowerDigits[i] = c
    THEN (CHOOSE i \in 1..16 : LowerDigits[i] = c) - 1
    ELSE -1

\* HexDisplay under {:x} and {:X}: two digits for each byte, in order.
RECURSIVE HexOf(_, _)
HexOf(bytes, digits) ==
    IF bytes = <<>> THEN <<>>
    ELSE <<digits[(Head(bytes) \div 16) + 1], digits[(Head(bytes) % 16) + 1]>>
         \o HexOf(Tail(bytes), digits)

\* base16ct::lower::decode(src, dst): an odd length or one that needs more
\* bytes than dst holds is InvalidLength; the pairs are decoded into the
\* first Len(src) / 2 bytes of dst, whose other bytes stay as they are; a
\* character that is no lowercase hexadecimal digit is InvalidEncoding.
lower_decode(src, dst) ==
    IF Len(src) % 2 # 0 \/ Len(src) \div 2 > Len(dst)
    THEN [ok |-> FALSE, dst |-> dst]
    ELSE LET n == Len(src) \div 2
             hi(i) == decode_nibble(src[2 * i - 1])
             lo(i) == decode_nibble(src[2 * i])
             bad == \E i \in 1..n : hi(i) < 0 \/ lo(i) < 0
             out == [i \in 1..Len(dst) |->
                       IF i > n THEN dst[i]
                       ELSE IF lo(i) < 0 THEN ByteMod - 1
                       ELSE IF hi(i) < 0 THEN ByteMod - 16 + lo(i)
                       ELSE hi(i) * 16 + lo(i)]
         IN  [ok |-> ~bad, dst |-> out]

---------------------------------------------------------------------------
(* ScalarPrimitive<C>: a scalar is its `inner`; a CtOption<Self> or a       *)
(* Result<Self> is [ok, val].                                               *)

MODULUS == order

ZERO == 0

ONE == 1

Default == 0

None == [ok |-> FALSE, val |-> 0]

\* new with the bound included: uint <= MODULUS in place of uint < MODULUS.
new_Inclusive(uint) == [ok |-> ~uint_ct_gt(uint, MODULUS), val |-> uint]

new(uint) == [ok |-> uint_ct_lt(uint, MODULUS), val |-> uint]

\* Option::from(CtOption).ok_or(Error)
ok_or(r) == IF r.ok THEN r ELSE None

from_be_bytes(bytes) == new(from_be_byte_array(bytes))

\* from_be_slice without the length check on short slices.
from_be_slice_Padded(slice) ==
    IF Len(slice) <= BYTES THEN ok_or(from_be_bytes(slice)) ELSE None

from_be_slice(slice) ==
    IF Len(slice) = BYTES THEN ok_or(from_be_bytes(slice)) ELSE None

from_le_bytes(bytes) == new(from_le_byte_array(bytes))

from_le_slice(slice) ==
    IF Len(slice) = BYTES THEN ok_or(from_le_bytes(slice)) ELSE None

to_be_bytes(s) == to_be_byte_array(s)

\* to_le_bytes with the byte order of to_be_bytes.
to_le_bytes_Swapped(s) == to_be_byte_array(s)

to_le_bytes(s) == to_le_byte_array(s)

from_uint_unchecked(uint) == uint

ct_eq(a, b) == uint_ct_eq(a, b)

ct_lt(a, b) == uint_ct_lt(a, b)

ct_gt(a, b) == uint_ct_gt(a, b)

eq(a, b) == ct_eq(a, b)

\* cmp with its operands exchanged.
cmp_Reversed(a, b) == uint_cmp(b, a)

cmp(a, b) == uint_cmp(a, b)

partial_cmp(a, b) == [ok |-> TRUE, val |-> cmp(a, b)]

from_u64(n) == uint_from_u64(n)

\* add by wrapping_add: no reduction by the modulus.
add_Unreduced(a, b) == Wrap(a + b)

add(a, b) == add_mod(a, b, MODULUS)

sub(a, b) == sub_mod(a, b, MODULUS)

\* neg as MODULUS - self, zero included.
neg_OfZero(a) == Wrap(MODULUS - a)

neg(a) == neg_mod(a, MODULUS)

shr1(a) == shr(a)

\* is_high against the order halved rounding up.
is_high_RoundedUp(a) ==
    LET n_2 == shr(order + 1)
    IN  uint_ct_gt(a, n_2)

is_high(a) ==
    LET n_2 == shr(order)
    IN  uint_ct_gt(a, n_2)

fmt_LowerHex(s) == HexOf(to_be_bytes(s), LowerDigits)

fmt_UpperHex(s) == HexOf(to_be_bytes(s), UpperDigits)

fmt_Display(s) == fmt_UpperHex(s)

FieldBytesDefault == [i \in 1..BYTES |-> 0]

from_str(hex) ==
    LET d == lower_decode(hex, FieldBytesDefault)
    IN  IF d.ok THEN ok_or(from_be_bytes(d.dst)) ELSE None

\* Uint::random_mod(rng, MODULUS): any value below the modulus.
random_mod(p) == 0..(p - 1)

---------------------------------------------------------------------------
(* The inputs the caller draws from. *)

\* The integer whose big endian bytes are 1, 2, ..., BYTES.
Pattern == FoldBe([i \in 1..BYTES |-> i], 0)

SampleUints ==
    {0, 1, order \div 2, (order \div 2) + 1, order - 1, order, order + 1,
     UintMod - 1, Pattern} \cap (0..(UintMod - 1))

SampleU64 == {0, 1, order, U64Mod - 1} \cap (0..(U64Mod - 1))

\* FieldBytes<C>: arrays of exactly BYTES bytes.
SampleBytes ==
    {to_be_byte_array(v) : v \in SampleUints}
        \cup {to_le_byte_array(v) : v \in SampleUints}

\* &[u8]: the arrays, and slices one byte shorter and one byte longer.
SampleSlices ==
    SampleBytes
        \cup {SubSeq(b, 1, BYTES - 1) : b \in SampleBytes}
        \cup {SubSeq(b, 2, BYTES) : b \in SampleBytes}
        \cup {b \o <<0>> : b \in SampleBytes}
        \cup {<<0>> \o b : b \in SampleBytes}
        \cup {<<>>}

\* &str: both renderings of the arrays, their proper prefixes, the same with
\* one or two more digits, and with a character that is no digit.
SampleStrs ==
    LET full == {HexOf(b, LowerDigits) : b \in SampleBytes}
                    \cup {HexOf(b, UpperDigits) : b \in SampleBytes}
    IN  full
            \cup {SubSeq(s, 1, k) : s \in full, k \in 0..(2 * BYTES - 1)}
            \cup {s \o <<"0">> : s \in full}
            \cup {<<"0", "0">> \o s : s \in full}
            \cup {[s EXCEPT ![1] = "g"] : s \in full}
            \cup {[s EXCEPT ![2 * BYTES] = " "] : s \in full}

\* The other operand of a binary operation: a scalar the validated
\* constructors give, or the caller's own.
Operands == {v \in SampleUints : v < order} \cup {x}

---------------------------------------------------------------------------
(* The caller. *)

Call(op, pre, arg, bytes, str, ok, out) ==
    [op |-> op, pre |-> pre, arg |-> arg, bytes |-> bytes, str |-> str,
     ok |-> ok, out |-> out]

Init ==
    /\ order \in Orders
    /\ x = Default
    /\ checked = TRUE
    /\ last = Call("default", 0, 0, <<>>, <<>>, TRUE, Default)
    /\ calls = 0

\* The caller may make another call.
Operating == calls < MaxCalls

\* A constructor reads no scalar, so it is the caller's first call: called
\* later it would return the same.
Constructing == Operating /\ calls = 0

Step ==
    /\ calls' = calls + 1
    /\ order' = order

\* A constructor that returned r: the caller keeps the scalar when there is
\* one.
Made(op, arg, bytes, str, r) ==
    /\ Step
    /\ last' = Call(op, 0, arg, bytes, str, r.ok, r.val)
    /\ x' = IF r.ok THEN r.val ELSE x
    /\ checked' = IF r.ok THEN TRUE ELSE checked

Zero ==
    /\ Constructing
    /\ Made("ZERO", 0, <<>>, <<>>, [ok |-> TRUE, val |-> ZERO])

One ==
    /\ Constructing
    /\ Made("ONE", 0, <<>>, <<>>, [ok |-> TRUE, val |-> ONE])

Random ==
    /\ Constructing
    /\ \E v \in {u \in SampleUints : u \in random_mod(MODULUS)} :
       Made("random", 0, <<>>, <<>>, [ok |-> TRUE, val |-> v])

New ==
    /\ Constructing
    /\ \E uint \in SampleUints : Made("new", uint, <<>>, <<>>, new(uint))

FromBeBytes ==
    /\ Constructing
    /\ \E bytes \in SampleBytes :
       Made("from_be_bytes", 0, bytes, <<>>, from_be_bytes(bytes))

FromLeBytes ==
    /\ Constructing
    /\ \E bytes \in SampleBytes :
       Made("from_le_bytes", 0, bytes, <<>>, from_le_bytes(bytes))

FromBeSlice ==
    /\ Constructing
    /\ \E slice \in SampleSlices :
       Made("from_be_slice", 0, slice, <<>>, from_be_slice(slice))

FromLeSlice ==
    /\ Constructing
    /\ \E slice \in SampleSlices :
       Made("from_le_slice", 0, slice, <<>>, from_le_slice(slice))

FromStr ==
    /\ Constructing
    /\ \E hex \in SampleStrs : Made("from_str", 0, <<>>, hex, from_str(hex))

\* The two constructors that validate nothing.
Unvalidated(op, arg, v) ==
    /\ Step
    /\ last' = Call(op, 0, arg, <<>>, <<>>, TRUE, v)
    /\ x' = v
    /\ checked' = FALSE

FromU64 ==
    /\ Constructing
    /\ \E n \in SampleU64 : Unvalidated("from_u64", n, from_u64(n))

FromUintUnchecked ==
    /\ Constructing
    /\ \E uint \in SampleUints :
       Unvalidated("from_uint_unchecked", uint, from_uint_unchecked(uint))

\* An operation that replaces the caller's scalar by its result.
Replaced(op, arg, v) ==
    /\ Step
    /\ last' = Call(op, x, arg, <<>>, <<>>, TRUE, v)
    /\ x' = v
    /\ checked' = checked

Add ==
    /\ Operating
    /\ \E b \in Operands : Replaced("add", b, add(x, b))

AddAssign ==
    /\ Operating
    /\ \E b \in Operands : Replaced("add_assign", b, add(x, b))

Sub ==
    /\ Operating
    /\ \E b \in Operands : Replaced("sub", b, sub(x, b))

SubAssign ==
    /\ Operating
    /\ \E b \in Operands : Replaced("sub_assign", b, sub(x, b))

Neg ==
    /\ Operating
    /\ Replaced("neg", 0, neg(x))

Shr1 ==
    /\ Operating
    /\ Replaced("shr1", 0, shr1(x))

\* An operation that only reads the caller's scalar.
Asked(op, arg, bytes, str, ok, out) ==
    /\ Step
    /\ last' = Call(op, x, arg, bytes, str, ok, out)
    /\ UNCHANGED <<x, checked>>

IsHigh ==
    /\ Operating
    /\ Asked("is_high", 0, <<>>, <<>>, is_high(x), 0)

CtEq ==
    /\ Operating
    /\ \E b \in Operands : Asked("ct_eq", b, <<>>, <<>>, ct_eq(x, b), 0)

CtLt ==
    /\ Operating
    /\ \E b \in Operands : Asked("ct_lt", b, <<>>, <<>>, ct_lt(x, b), 0)

CtGt ==
    /\ Operating
    /\ \E b \in Operands : Asked("ct_gt", b, <<>>, <<>>, ct_gt(x, b), 0)

Eq ==
    /\ Operating
    /\ \E b \in Operands : Asked("eq", b, <<>>, <<>>, eq(x, b), 0)

Cmp ==
    /\ Operating
    /\ \E b \in Operands : Asked("cmp", b, <<>>, <<>>, TRUE, cmp(x, b))

PartialCmp ==
    /\ Operating
    /\ \E b \in Operands :
       Asked("partial_cmp", b, <<>>, <<>>,
       partial_cmp(x, b).ok, partial_cmp(x, b).val)

ToBeBytes ==
    /\ Operating
    /\ Asked("to_be_bytes", 0, to_be_bytes(x), <<>>, TRUE, 0)

ToLeBytes ==
    /\ Operating
    /\ Asked("to_le_bytes", 0, to_le_bytes(x), <<>>, TRUE, 0)

LowerHex ==
    /\ Operating
    /\ Asked("fmt_LowerHex", 0, <<>>, fmt_LowerHex(x), TRUE, 0)

UpperHex ==
    /\ Operating
    /\ Asked("fmt_UpperHex", 0, <<>>, fmt_UpperHex(x), TRUE, 0)

Display ==
    /\ Operating
    /\ Asked("fmt_Display", 0, <<>>, fmt_Display(x), TRUE, 0)

Next ==
    \/ Zero \/ One \/ Random \/ New
    \/ FromBeBytes \/ FromLeBytes \/ FromBeSlice \/ FromLeSlice \/ FromStr
    \/ FromU64 \/ FromUintUnchecked
    \/ Add \/ AddAssign \/ Sub \/ SubAssign \/ Neg \/ Shr1
    \/ IsHigh \/ CtEq \/ CtLt \/ CtGt \/ Eq \/ Cmp \/ PartialCmp
    \/ ToBeBytes \/ ToLeBytes \/ LowerHex \/ UpperHex \/ Display

Spec == Init /\ [][Next]_vars

---------------------------------------------------------------------------
(* What the claims are stated with: the integer a byte or digit string      *)
(* denotes, computed from its last digit, and the operations by kind.       *)

RECURSIVE BigEndianValue(_)
BigEndianValue(b) ==
    IF b = <<>> THEN 0
    ELSE BigEndianValue(SubSeq(b, 1, Len(b) - 1)) * 256 + b[Len(b)]

Reverse(b) == [i \in 1..Len(b) |-> b[Len(b) + 1 - i]]

LittleEndianValue(b) == BigEndianValue(Reverse(b))

HexChars ==
    {"0", "1", "2", "3", "4", "5", "6", "7", "8", "9",
     "a", "b", "c", "d", "e", "f", "A", "B", "C", "D", "E", "F"}

IsHex(str) == \A i \in 1..Len(str) : str[i] \in HexChars

DigitValue(c) ==
    CHOOSE d \in 0..15 : LowerDigits[d + 1] = c \/ UpperDigits[d + 1] = c

RECURSIVE HexValue(_)
HexValue(str) ==
    IF str = <<>> THEN 0
    ELSE HexValue(SubSeq(str, 1, Len(str) - 1)) * 16 + DigitValue(str[Len(str)])

InRange(v) == 0 <= v /\ v < order

ArithmeticOps == {"add", "add_assign", "sub", "sub_assign", "neg", "shr1"}

CompareOps == {"ct_eq", "ct_lt", "ct_gt", "eq", "cmp", "partial_cmp"}

\* Every constructor and conversion but from_uint_unchecked.
ValidatedSurface ==
    {"default", "ZERO", "ONE", "random", "new", "from_be_bytes",
     "from_le_bytes", "from_be_slice", "from_le_slice", "from_str", "from_u64"}

---------------------------------------------------------------------------
(* The claims. *)

\* C1: a scalar obtained from ZERO, ONE, a successful new / from_*_bytes /
\* from_*_slice or random, and every scalar reached from it by +, -, unary -,
\* shr1, += and -=, has 0 <= inner < N, and none of these operations reports
\* an error.
C1_InRange ==
    /\ checked => InRange(x)
    /\ (checked /\ last.op \in ArithmeticOps) =>
           last.ok /\ InRange(last.out) /\ x = last.out

\* C1 witness: after two earlier calls, an addition whose sum overflows the
\* integer's width has been reduced into range.
C1_Witness ==
    /\ checked
    /\ calls >= 3
    /\ last.op \in {"add", "add_assign"}
    /\ InRange(last.pre) /\ InRange(last.arg)
    /\ last.pre + last.arg >= UintMod
    /\ InRange(x)

\* C2: for a, b in [0, N): a + b is (a + b) mod N, a - b is (a - b + N) mod N
\* and -a is (N - a) mod N over unbounded integers; -ZERO is ZERO, not N.
C2_ModularArithmetic ==
    /\ (last.op \in {"add", "add_assign"} /\ InRange(last.pre) /\ InRange(last.arg))
           => last.out = (last.pre + last.arg) % order
    /\ (last.op \in {"sub", "sub_assign"} /\ InRange(last.pre) /\ InRange(last.arg))
           => last.out = (last.pre - last.arg + order) % order
    /\ (last.op = "neg" /\ InRange(last.pre))
           => /\ last.out = (order - last.pre) % order
              /\ (last.pre = ZERO => last.out = ZERO)

\* C2 witness: ZERO has been negated, and the result is ZERO.
C2_Witness ==
    /\ last.op = "neg"
    /\ last.pre = ZERO
    /\ last.out = ZERO
    /\ x = ZERO

\* C3: new(v) is valid iff v < N and then holds exactly v; from_be_bytes and
\* from_le_bytes are valid iff the integer they decode is < N, so the
\* encoding of N and of every larger value is rejected.
C3_Validation ==
    /\ last.op = "new" =>
           /\ last.ok <=> last.arg < order
           /\ last.ok => last.out = last.arg /\ x = last.arg
    /\ last.op = "from_be_bytes" =>
           /\ last.ok <=> BigEndianValue(last.bytes) < order
           /\ last.ok => x = BigEndianValue(last.bytes)
           /\ BigEndianValue(last.bytes) >= order => ~last.ok
    /\ last.op = "from_le_bytes" =>
           /\ last.ok <=> LittleEndianValue(last.bytes) < order
           /\ last.ok => x = LittleEndianValue(last.bytes)
           /\ LittleEndianValue(last.bytes) >= order => ~last.ok

\* C3 witness: the big endian encoding of N itself has been decoded, and
\* rejected.
C3_Witness ==
    /\ last.op = "from_be_bytes"
    /\ Len(last.bytes) = BYTES
    /\ BigEndianValue(last.bytes) = order
    /\ ~last.ok

\* C4: for x in [0, N): from_be_bytes(to_be_bytes(x)) is valid and equals x,
\* and from_le_bytes(to_le_bytes(x)) is valid and equals x.
C4_RoundTrip ==
    /\ (last.op = "to_be_bytes" /\ InRange(last.pre))
           => from_be_bytes(last.bytes) = [ok |-> TRUE, val |-> last.pre]
    /\ (last.op = "to_le_bytes" /\ InRange(last.pre))
           => from_le_bytes(last.bytes) = [ok |-> TRUE, val |-> last.pre]

\* C4 witness: a scalar whose bytes differ from one another has been encoded
\* in little endian, and the bytes decode to it.
C4_Witness ==
    /\ last.op = "to_le_bytes"
    /\ InRange(last.pre)
    /\ last.bytes # Reverse(last.bytes)
    /\ from_le_bytes(last.bytes).ok
    /\ from_le_bytes(last.bytes).val = last.pre

\* C5: from_be_slice(s) and from_le_slice(s) are Ok iff len(s) = W and the
\* integer decoded from s is < N; a slice of another length is Err, neither
\* padded nor truncated; an Ok result is the scalar from_be_bytes /
\* from_le_bytes gives for the same bytes.
C5_Slices ==
    /\ last.op = "from_be_slice" =>
           /\ last.ok <=>
                  (Len(last.bytes) = BYTES /\ BigEndianValue(last.bytes) < order)
           /\ Len(last.bytes) # BYTES => ~last.ok
           /\ last.ok =>
                  /\ from_be_bytes(last.bytes) = [ok |-> TRUE, val |-> last.out]
                  /\ last.out = BigEndianValue(last.bytes)
    /\ last.op = "from_le_slice" =>
           /\ last.ok <=>
                  (Len(last.bytes) = BYTES /\ LittleEndianValue(last.bytes) < order)
           /\ Len(last.bytes) # BYTES => ~last.ok
           /\ last.ok =>
                  /\ from_le_bytes(last.bytes) = [ok |-> TRUE, val |-> last.out]
                  /\ last.out = LittleEndianValue(last.bytes)

\* C5 witness: a slice of W - 1 bytes, which padded would be in range, has
\* been rejected.
C5_Witness ==
    /\ last.op = "from_be_slice"
    /\ Len(last.bytes) = BYTES - 1
    /\ BigEndianValue(last.bytes) < order
    /\ ~last.ok

\* C6: from_str returns Err for every input that holds a character that is
\* no hexadecimal digit, whose length is not exactly 2 * W, or whose big
\* endian value is >= N.
C6_AsClaimed ==
    last.op = "from_str" =>
        /\ ~IsHex(last.str) => ~last.ok
        /\ Len(last.str) # 2 * BYTES => ~last.ok
        /\ (IsHex(last.str) /\ HexValue(last.str) >= order) => ~last.ok

\* C7: for x in [0, N): parsing the uppercase rendering of x ({:X}, and
\* Display) gives Ok(x), and parsing the lowercase rendering ({:x}) gives
\* Ok(x); both are the hexadecimal of the big endian bytes.
C7_AsClaimed ==
    (last.op \in {"fmt_UpperHex", "fmt_Display", "fmt_LowerHex"}
         /\ InRange(last.pre))
        => /\ from_str(last.str) = [ok |-> TRUE, val |-> last.pre]
           /\ Len(last.str) = 2 * BYTES
           /\ IsHex(last.str)
           /\ HexValue(last.str) = last.pre

\* C8: for x in [0, N), N even or odd: is_high(x) iff inner > floor(N / 2);
\* is_high(HALF) is false and is_high(HALF + 1) is true when HALF + 1 < N.
C8_IsHigh ==
    (last.op = "is_high" /\ InRange(last.pre)) =>
        /\ last.ok <=> last.pre > order \div 2
        /\ last.pre = order \div 2 => ~last.ok
        /\ last.pre = (order \div 2) + 1 => last.ok

\* C8 witness: under an odd order, is_high has answered true for HALF + 1.
C8_Witness ==
    /\ last.op = "is_high"
    /\ order % 2 = 1
    /\ last.pre = (order \div 2) + 1
    /\ InRange(last.pre)
    /\ last.ok

\* C9: from_uint_unchecked is the only way to a scalar with inner >= N: every
\* other constructor or conversion, From<u64> for every input included,
\* fails or gives inner < N.
C9_AsClaimed ==
    (last.op \in ValidatedSurface /\ last.ok) => InRange(x)

\* C10: == agrees with ct_eq and with equality of the inner values; cmp is
\* Less iff ct_lt iff a.inner < b.inner, Greater iff ct_gt iff
\* a.inner > b.inner; partial_cmp is Some(cmp).
C10_Comparisons ==
    LET a == last.pre
        b == last.arg
    IN  /\ last.op \in {"eq", "ct_eq"} => (last.ok <=> a = b)
        /\ last.op = "ct_lt" => (last.ok <=> a < b)
        /\ last.op = "ct_gt" => (last.ok <=> a > b)
        /\ last.op \in {"cmp", "partial_cmp"} =>
               /\ last.ok
               /\ last.out = -1 <=> a < b
               /\ last.out = 0 <=> a = b
               /\ last.out = 1 <=> a > b
        /\ last.op \in CompareOps =>
               /\ eq(a, b) <=> ct_eq(a, b)
               /\ cmp(a, b) = -1 <=> ct_lt(a, b)
               /\ cmp(a, b) = 1 <=> ct_gt(a, b)
               /\ partial_cmp(a, b) = [ok |-> TRUE, val |-> cmp(a, b)]

\* C10 witness: cmp has answered Greater for a scalar above its operand.
C10_Witness ==
    /\ last.op = "cmp"
    /\ last.pre > last.arg
    /\ last.out = 1

===========================================================================
